---- MODULE Spec2Model ----
(***************************************************************************)
(* Model of the local-dataset tools of the movie agent (tools_kaggle.py):  *)
(* the SQLite catalog store, the lazily built fuzzy-matching cache, the    *)
(* fuzzy matcher and the five kaggle_* query tools; of the conversation    *)
(* memory (memory.py); and of the chat / tool-calling loop (agent.py).     *)
(*                                                                         *)
(* Specifications: Spec (sequential tool calls on a changing store),       *)
(* SpecLoad (concurrent first use of the cache), SpecLev (_levenshtein),   *)
(* SpecMemory (Memory.add), SpecAgent (run_agent).                         *)
(*                                                                         *)
(* Strings are sequences of one-character strings.  Floating-point scores  *)
(* are modelled as exact fractions [n |-> numerator, d |-> denominator].    *)
(***************************************************************************)
EXTENDS Integers, Sequences, FiniteSets, TLC

VARIABLES
    dbState,                \* the file data/imdb_top_1000.db: "absent", "notable", "ok"
    movies,                 \* rows of table movies, in rowid order (<<>> unless "ok")
    _MOVIES_CACHE,          \* module global: list of cache items
    _MOVIES_CACHE_LOADED,   \* module global: the loaded flag
    lastCall                \* observation of the most recent call and its outcome

vars == <<dbState, movies, _MOVIES_CACHE, _MOVIES_CACHE_LOADED, lastCall>>

\* Concurrent first use of the cache: the callers' positions and locals.
VARIABLES
    thread,                 \* per thread: pc, sawLoaded, rows, cache (local), seen
    storeReads,             \* how many times fetchall() returned the table
    cacheAssigns            \* how many times _MOVIES_CACHE was assigned

loadVars == <<thread, storeReads, cacheAssigns>>

\* A call of _levenshtein on its own.
VARIABLES
    levArgs,                \* the arguments <<a, b>>
    levResult               \* <<>> before the call, <<distance>> after it

levVars == <<levArgs, levResult>>

\* The Memory object of memory.py and its file memory_store.json.
VARIABLES
    history,                \* Memory.history: list of Message
    profile,                \* Memory.profile
    memoryFile,             \* content of memory_store.json
    adds                    \* number of Memory.add calls made on the object directly

memVars == <<history, profile, memoryFile, adds>>

\* run_agent() of agent.py.
VARIABLES
    agentPc,                \* "input", "llm", "after_loop" or "exited"
    userInput,              \* user_input of the current turn
    messages,               \* the conversation sent to the LLM
    step,                   \* iterations of  for step in range(8)  completed
    final_answer_done,      \* the flag of the same name
    turns,                  \* inputs read so far
    llmCalls,               \* LLM calls made in the current turn
    turnAdds                \* roles passed to memory.add in the current turn

agentVars ==
    <<agentPc, userInput, messages, step, final_answer_done, turns, llmCalls, turnAdds>>

(***************************************************************************)
(* Bounds and input pools                                                  *)
(***************************************************************************)
MaxCatalog == 2
MaxLevLen == 3
MaxAdds == 3
MaxTurns == 2

sp == " "

\* Three rows of the movies table.  R1 and R3 have the same lower-cased
\* title; R2 differs from it by one doubled blank and has rich metadata.
R1 ==
    [title |-> <<"a", "a", sp, "b", sp, "c">>, year |-> 1, genre |-> <<>>,
     rating |-> 80, director |-> <<>>,
     stars |-> << <<>>, <<>>, <<>>, <<>> >>, overview |-> <<>>]

R2 ==
    [title |-> <<"A", "a", sp, "b", sp, sp, "c">>, year |-> 2, genre |-> <<"d">>,
     rating |-> 90, director |-> <<"B">>,
     stars |-> << <<"B", "c">>, <<>>, <<"A", "b">>, <<>> >>,
     overview |-> <<"a", "a", "b", "c">>]

R3 ==
    [title |-> <<"A", "A", sp, "B", sp, "C">>, year |-> 3, genre |-> <<"c">>,
     rating |-> 70, director |-> <<>>,
     stars |-> << <<"C", "b">>, <<>>, <<>>, <<>> >>, overview |-> <<>>]

MoviePool == {R1, R2, R3}

RECURSIVE SeqsUpTo(_, _)
SeqsUpTo(S, n) ==
    IF n = 0 THEN {<<>>}
    ELSE LET shorter == SeqsUpTo(S, n - 1)
         IN  shorter \cup {Append(s, x) : s \in {t \in shorter : Len(t) = n - 1}, x \in S}

Catalogs == SeqsUpTo(MoviePool, MaxCatalog)

\* Title arguments of the matcher and of the title tools.
TitleQueries ==
    { <<>>,                                   \* ""
      <<sp>>,                                 \* " "  (empty after normalization)
      <<sp, "A", "A", sp, "B", sp, "C", sp>>, \* " AA B C " (normalizes to R1's title)
      <<"a", "a", sp, "d">>,                  \* "aa d"   (fuzzy, score exactly 0.6)
      <<"a", "a", sp, "b", sp, "d">>,         \* "aa b d" (fuzzy hit)
      <<"d", "d">>,                           \* "dd"     (no match)
      <<"b">> }                               \* "b"      (direct substring hit)

\* Actor / genre / keyword arguments.
Keywords == { <<>>, <<"b">>, <<"C">>, <<"d", "d">> }

IntL(n) == [t |-> "int", v |-> n]
StrL(s) == [t |-> "str", v |-> s]

\* limit arguments: ints, a coercible string and non-coercible strings.
Limits ==
    { IntL(2), IntL(0), IntL(-1), StrL(<<sp, "1">>), StrL(<<"a", "b", "c">>), StrL(<<>>) }

(***************************************************************************)
(* String primitives (Python str methods, SQLite LIKE)                     *)
(***************************************************************************)
\* str.lower() / SQLite lower() on one character.
Lower(c) ==
    CASE c = "A" -> "a"
      [] c = "B" -> "b"
      [] c = "C" -> "c"
      [] c = "D" -> "d"
      [] OTHER -> c

LowerStr(s) == [i \in 1..Len(s) |-> Lower(s[i])]

IsSpace(c) == c = sp

\* str.strip(): drop leading and trailing whitespace.
RECURSIVE LStrip(_)
LStrip(s) == IF s # <<>> /\ IsSpace(Head(s)) THEN LStrip(Tail(s)) ELSE s

RECURSIVE RStrip(_)
RStrip(s) ==
    IF s # <<>> /\ IsSpace(s[Len(s)]) THEN RStrip(SubSeq(s, 1, Len(s) - 1)) ELSE s

Strip(s) == RStrip(LStrip(s))

\* (text or "").strip().lower()
_normalize(text) == LowerStr(Strip(text))

\* str.split() without arguments: the whitespace-delimited tokens, as a sequence.
RECURSIVE Split(_, _, _)
Split(s, i, cur) ==
    IF i > Len(s) THEN (IF cur = <<>> THEN <<>> ELSE <<cur>>)
    ELSE IF IsSpace(s[i])
         THEN (IF cur = <<>> THEN <<>> ELSE <<cur>>) \o Split(s, i + 1, <<>>)
         ELSE Split(s, i + 1, Append(cur, s[i]))

\* {tok for tok in s.split() if tok}
TokenSet(s) == LET toks == Split(s, 1, <<>>) IN {toks[i] : i \in 1..Len(toks)}

\* Python's  p in s  for strings.
IsSubstr(p, s) == \E i \in 0..(Len(s) - Len(p)) : SubSeq(s, i + 1, i + Len(p)) = p

\* SQLite  s LIKE pat : % matches any run, _ any one character, ASCII
\* letters compare case-insensitively.
RECURSIVE Like(_, _)
Like(s, pat) ==
    IF pat = <<>> THEN s = <<>>
    ELSE IF Head(pat) = "%"
         THEN \E k \in 0..Len(s) : Like(SubSeq(s, k + 1, Len(s)), Tail(pat))
         ELSE /\ s # <<>>
              /\ (Head(pat) = "_" \/ Lower(Head(pat)) = Lower(Head(s)))
              /\ Like(Tail(s), Tail(pat))

\* The bound parameter f"%{norm}%".
Wrap(norm) == <<"%">> \o norm \o <<"%">>

\* lower(COALESCE(col, '')) LIKE '%norm%'
ColLike(col, norm) == Like(LowerStr(col), Wrap(norm))

Min2(x, y) == IF x < y THEN x ELSE y
Max2(x, y) == IF x > y THEN x ELSE y

(***************************************************************************)
(* _levenshtein: row-by-row dynamic programme                               *)
(***************************************************************************)
\* A faulty variant of LevRow: the deletion cost is left out of the minimum.
RECURSIVE LevRowNoDelete(_, _, _, _)
LevRowNoDelete(cur, prev_row, ca, b) ==
    IF Len(cur) = Len(b) + 1 THEN cur
    ELSE LET j == Len(cur)
             insert_cost == cur[j] + 1
             replace_cost == prev_row[j] + (IF ca = b[j] THEN 0 ELSE 1)
         IN  LevRowNoDelete(Append(cur, Min2(insert_cost, replace_cost)), prev_row, ca, b)

\* The inner loop over b: cur holds cur_row[0..j-1]; appends cur_row[j].
RECURSIVE LevRow(_, _, _, _)
LevRow(cur, prev_row, ca, b) ==
    IF Len(cur) = Len(b) + 1 THEN cur
    ELSE LET j == Len(cur)
             insert_cost == cur[j] + 1
             delete_cost == prev_row[j + 1] + 1
             replace_cost == prev_row[j] + (IF ca = b[j] THEN 0 ELSE 1)
         IN  LevRow(Append(cur, Min2(insert_cost, Min2(delete_cost, replace_cost))),
                    prev_row, ca, b)

\* The outer loop over a: returns the last row.
RECURSIVE LevRows(_, _, _, _)
LevRows(prev_row, a, b, i) ==
    IF i > Len(a) THEN prev_row
    ELSE LevRows(LevRow(<<i>>, prev_row, a[i], b), a, b, i + 1)

_levenshtein(a, b) ==
    IF a = b THEN 0
    ELSE IF a = <<>> THEN Len(b)
    ELSE IF b = <<>> THEN Len(a)
    ELSE LET last == LevRows([j \in 1..(Len(b) + 1) |-> j - 1], a, b, 1)
         IN  last[Len(b) + 1]

(***************************************************************************)
(* Exact fractions standing for the floats of _fuzzy_score                  *)
(***************************************************************************)
Frac(n, d) == [n |-> n, d |-> d]
FAdd(x, y) == Frac(x.n * y.d + y.n * x.d, x.d * y.d)
FLess(x, y) == x.n * y.d < y.n * x.d
FEq(x, y) == x.n * y.d = y.n * x.d

TOKEN_BONUS == Frac(1, 10)      \* 0.1 per shared title token
META_BONUS == Frac(1, 20)       \* 0.05 per query token found in the metadata
SCORE_CEILING == Frac(3, 2)     \* 1.5
SCORE_FLOOR == Frac(0, 1)       \* 0.0
THRESHOLD == Frac(6, 10)        \* 0.6

(***************************************************************************)
(* The catalog store                                                       *)
(***************************************************************************)
\* A faulty variant of _get_connection that connects without the os.path.exists check.
ConnectsWithoutFileCheck == TRUE

\* _get_connection() is not None
_get_connection == dbState # "absent"

\* conn.execute(... FROM movies ...) succeeds (otherwise sqlite3.OperationalError)
TableReadable == dbState = "ok"

(***************************************************************************)
(* The similarity index                                                    *)
(***************************************************************************)
RECURSIVE JoinSp(_)
\* " ".join(parts)
JoinSp(parts) ==
    IF parts = <<>> THEN <<>>
    ELSE IF Len(parts) = 1 THEN parts[1]
    ELSE parts[1] \o <<sp>> \o JoinSp(Tail(parts))

\* One cache item built from one row of the SELECT in _load_movies_cache.
CacheItem(row) ==
    LET cols == <<row.genre, row.director>> \o row.stars
        meta_parts == SelectSeq(cols, LAMBDA x : x # <<>>)
        meta_text == JoinSp(meta_parts)
        combined_meta == LowerStr(row.overview \o <<sp>> \o meta_text)
    IN  [title |-> row.title, title_norm |-> _normalize(row.title), meta |-> combined_meta]

BuildCache(rows) == [i \in 1..Len(rows) |-> CacheItem(rows[i])]

\* A faulty variant of _load_movies_cache that rebuilds on every call.
LoadAlwaysRebuilds(loaded, cache) ==
    IF ~_get_connection THEN [raised |-> FALSE, loaded |-> TRUE, cache |-> <<>>]
    ELSE IF ~TableReadable THEN [raised |-> TRUE, loaded |-> loaded, cache |-> cache]
    ELSE [raised |-> FALSE, loaded |-> TRUE, cache |-> BuildCache(movies)]

\* A faulty variant of _load_movies_cache without the "if not conn" branch: the
\* query is run on the missing connection and raises.
LoadWithoutConnCheck(loaded, cache) ==
    IF loaded THEN [raised |-> FALSE, loaded |-> loaded, cache |-> cache]
    ELSE IF ~_get_connection \/ ~TableReadable
         THEN [raised |-> TRUE, loaded |-> loaded, cache |-> cache]
    ELSE [raised |-> FALSE, loaded |-> TRUE, cache |-> BuildCache(movies)]

\* _load_movies_cache() started with the globals (loaded, cache): whether it
\* raised, and the globals it leaves.
_load_movies_cache(loaded, cache) ==
    IF loaded THEN [raised |-> FALSE, loaded |-> loaded, cache |-> cache]
    ELSE IF ~_get_connection THEN [raised |-> FALSE, loaded |-> TRUE, cache |-> <<>>]
    ELSE IF ~TableReadable THEN [raised |-> TRUE, loaded |-> loaded, cache |-> cache]
    ELSE [raised |-> FALSE, loaded |-> TRUE, cache |-> BuildCache(movies)]

(***************************************************************************)
(* The fuzzy matcher                                                       *)
(***************************************************************************)
Clamp(score) ==
    IF FLess(score, SCORE_FLOOR) THEN SCORE_FLOOR
    ELSE IF FLess(SCORE_CEILING, score) THEN SCORE_CEILING
    ELSE score

_fuzzy_score(query_norm, item) ==
    LET q == query_norm
        t == item.title_norm
    IN  IF q = <<>> \/ t = <<>> THEN Frac(0, 1)
        ELSE LET max_len == Max2(Len(q), Len(t))
                 dist == _levenshtein(q, t)
                 base == Frac(max_len - dist, max_len)
                 tokens_q == TokenSet(q)
                 tokens_t == TokenSet(t)
                 overlap == Cardinality(tokens_q \cap tokens_t)
                 token_bonus == Frac(TOKEN_BONUS.n * overlap, TOKEN_BONUS.d)
                 meta_hits == Cardinality({tok \in tokens_q : IsSubstr(tok, item.meta)})
                 meta_bonus == Frac(META_BONUS.n * meta_hits, META_BONUS.d)
             IN  Clamp(FAdd(FAdd(base, token_bonus), meta_bonus))

NoTitle == [found |-> FALSE, title |-> <<>>]
SomeTitle(t) == [found |-> TRUE, title |-> t]

\* Python truthiness of an Optional[str]
Truthy(r) == r.found /\ r.title # <<>>

\* A faulty variant of the scan that lets a later equal score replace the best.
RECURSIVE BestLoopLastWins(_, _, _, _, _)
BestLoopLastWins(cache, i, q_norm, best_score, best_title) ==
    IF i > Len(cache) THEN [score |-> best_score, title |-> best_title]
    ELSE LET score == _fuzzy_score(q_norm, cache[i])
         IN  IF ~FLess(score, best_score)
             THEN BestLoopLastWins(cache, i + 1, q_norm, score, SomeTitle(cache[i].title))
             ELSE BestLoopLastWins(cache, i + 1, q_norm, best_score, best_title)

\* for item in _MOVIES_CACHE: keep the first strictly greater score.
RECURSIVE BestLoop(_, _, _, _, _)
BestLoop(cache, i, q_norm, best_score, best_title) ==
    IF i > Len(cache) THEN [score |-> best_score, title |-> best_title]
    ELSE LET score == _fuzzy_score(q_norm, cache[i])
         IN  IF FLess(best_score, score)
             THEN BestLoop(cache, i + 1, q_norm, score, SomeTitle(cache[i].title))
             ELSE BestLoop(cache, i + 1, q_norm, best_score, best_title)

\* _fuzzy_find_best_title(query) started with the globals (loaded, cache).
_fuzzy_find_best_title(query, loaded, cache) ==
    LET L == _load_movies_cache(loaded, cache)
        q_norm == _normalize(query)
        best == BestLoop(L.cache, 1, q_norm, Frac(0, 1), NoTitle)
        res == IF L.raised THEN NoTitle
               ELSE IF L.cache = <<>> THEN NoTitle
               ELSE IF q_norm = <<>> THEN NoTitle
               ELSE IF FLess(best.score, THRESHOLD) THEN NoTitle
               ELSE best.title
    IN  [raised |-> L.raised, res |-> res, loaded |-> L.loaded, cache |-> L.cache]

(***************************************************************************)
(* SQL and Python helpers of the tools                                     *)
(***************************************************************************)
IsDigit(c) == c \in {"0", "1", "2", "3", "4", "5", "6", "7", "8", "9"}

DigitVal(c) ==
    CASE c = "0" -> 0 [] c = "1" -> 1 [] c = "2" -> 2 [] c = "3" -> 3 [] c = "4" -> 4
      [] c = "5" -> 5 [] c = "6" -> 6 [] c = "7" -> 7 [] c = "8" -> 8 [] c = "9" -> 9

RECURSIVE DigitsVal(_, _)
DigitsVal(ds, acc) ==
    IF ds = <<>> THEN acc ELSE DigitsVal(Tail(ds), 10 * acc + DigitVal(Head(ds)))

\* A faulty variant of int(limit) that falls back to the default limit 5.
IntOrDefault(limit) ==
    IF limit.t = "int" THEN [ok |-> TRUE, v |-> limit.v]
    ELSE LET s == Strip(limit.v)
             signed == s # <<>> /\ Head(s) \in {"+", "-"}
             ds == IF signed THEN Tail(s) ELSE s
             bad == ds = <<>> \/ \E i \in 1..Len(ds) : ~IsDigit(ds[i])
         IN  IF bad THEN [ok |-> TRUE, v |-> 5]
             ELSE [ok |-> TRUE,
                   v |-> IF signed /\ Head(s) = "-" THEN 0 - DigitsVal(ds, 0)
                         ELSE DigitsVal(ds, 0)]

\* int(limit): an int is itself; a string is stripped and parsed as an
\* optionally signed decimal, and anything else raises ValueError.
IntOf(limit) ==
    IF limit.t = "int" THEN [ok |-> TRUE, v |-> limit.v]
    ELSE LET s == Strip(limit.v)
             signed == s # <<>> /\ Head(s) \in {"+", "-"}
             ds == IF signed THEN Tail(s) ELSE s
             bad == ds = <<>> \/ \E i \in 1..Len(ds) : ~IsDigit(ds[i])
         IN  IF bad THEN [ok |-> FALSE, v |-> 0]
             ELSE [ok |-> TRUE,
                   v |-> IF signed /\ Head(s) = "-" THEN 0 - DigitsVal(ds, 0)
                         ELSE DigitsVal(ds, 0)]

\* The row numbers of table movies whose title is LIKE '%norm%'.
TitleLikeRows(norm) == {i \in 1..Len(movies) : ColLike(movies[i].title, norm)}

\* The row numbers of table movies with Series_Title = title.
TitleEqualRows(title) == {i \in 1..Len(movies) : movies[i].title = title}

\* cur.fetchone() of  SELECT ... WHERE ... LIMIT 1, hits being the row
\* numbers that satisfy the WHERE clause: the first of them, or None.
FetchOne(hits) ==
    IF hits = {} THEN [found |-> FALSE, row |-> R1]
    ELSE [found |-> TRUE, row |-> movies[CHOOSE i \in hits : \A j \in hits : i <= j]]

\* ORDER BY IMDB_Rating DESC (rows of equal rating stay in scan order)
RECURSIVE InsertByRating(_, _)
InsertByRating(sorted, r) ==
    IF sorted = <<>> THEN <<r>>
    ELSE IF Head(sorted).rating >= r.rating
         THEN <<Head(sorted)>> \o InsertByRating(Tail(sorted), r)
         ELSE <<r>> \o sorted

RECURSIVE OrderByRatingDesc(_)
OrderByRatingDesc(rows) ==
    IF rows = <<>> THEN <<>>
    ELSE InsertByRating(OrderByRatingDesc(SubSeq(rows, 1, Len(rows) - 1)), rows[Len(rows)])

\* LIMIT n : a negative n means no limit in SQLite.
SqlLimit(rows, n) == IF n < 0 THEN rows ELSE SubSeq(rows, 1, Min2(n, Len(rows)))

NoLimit == [t |-> "none", v |-> 0]

\* What a call hands back: a message kind with the values it embeds, or an
\* exception.
Out(kind, arg, lim, rows, err) ==
    [kind |-> kind, arg |-> arg, lim |-> lim, rows |-> rows, err |-> err]

\* _kaggle_unavailable_message()
_kaggle_unavailable_message == Out("unavailable", <<>>, NoLimit, <<>>, "")

Raised(err) == Out("raised", <<>>, NoLimit, <<>>, err)

ToolRes(out, loaded, cache, fuzzy, direct) ==
    [out |-> out, loaded |-> loaded, cache |-> cache, fuzzy |-> fuzzy, direct |-> direct]

\* The row text of kaggle_movie_info: the non-blank stars, stripped.
InfoRow(row) ==
    [title |-> row.title, year |-> row.year, genre |-> row.genre, rating |-> row.rating,
     director |-> row.director,
     actors |-> [i \in 1..Len(SelectSeq(row.stars, LAMBDA x : Strip(x) # <<>>)) |->
                    Strip(SelectSeq(row.stars, LAMBDA x : Strip(x) # <<>>)[i])],
     overview |-> row.overview]

RatingRow(row) == [title |-> row.title, rating |-> row.rating]

ListRow(row) == [title |-> row.title, year |-> row.year, rating |-> row.rating]

\* overview[:150] + "..."
OVERVIEW_CUT == 150
KeywordRow(row) ==
    [title |-> row.title, overview |-> SubSeq(row.overview, 1, Min2(OVERVIEW_CUT, Len(row.overview)))]

(***************************************************************************)
(* The five tools.  Each takes its arguments and the cache globals it      *)
(* starts with and yields its outcome and the globals it leaves.           *)
(***************************************************************************)
\* A faulty variant of kaggle_movie_info that loads the cache before the direct query.
InfoLoadsFirst(title, loaded, cache) ==
    IF ~_get_connection THEN ToolRes(_kaggle_unavailable_message, loaded, cache, FALSE, FALSE)
    ELSE IF ~TableReadable
         THEN ToolRes(Raised("OperationalError"), loaded, cache, FALSE, FALSE)
    ELSE LET L == _load_movies_cache(loaded, cache)
             norm == _normalize(title)
             direct == FetchOne(TitleLikeRows(norm))
             F == _fuzzy_find_best_title(title, L.loaded, L.cache)
             again == FetchOne(TitleEqualRows(F.res.title))
             miss == Out("not_found", title, NoLimit, <<>>, "")
         IN  IF direct.found
             THEN ToolRes(Out("ok", title, NoLimit, <<InfoRow(direct.row)>>, ""),
                          L.loaded, L.cache, FALSE, TRUE)
             ELSE IF ~Truthy(F.res) THEN ToolRes(miss, F.loaded, F.cache, TRUE, FALSE)
             ELSE IF ~again.found THEN ToolRes(miss, F.loaded, F.cache, TRUE, FALSE)
             ELSE ToolRes(Out("ok", title, NoLimit, <<InfoRow(again.row)>>, ""),
                          F.loaded, F.cache, TRUE, FALSE)

kaggle_movie_info(title, loaded, cache) ==
    IF ~_get_connection THEN ToolRes(_kaggle_unavailable_message, loaded, cache, FALSE, FALSE)
    ELSE IF ~TableReadable
         THEN ToolRes(Raised("OperationalError"), loaded, cache, FALSE, FALSE)
    ELSE LET norm == _normalize(title)
             direct == FetchOne(TitleLikeRows(norm))
             F == _fuzzy_find_best_title(title, loaded, cache)
             again == FetchOne(TitleEqualRows(F.res.title))
             miss == Out("not_found", title, NoLimit, <<>>, "")
         IN  IF direct.found
             THEN ToolRes(Out("ok", title, NoLimit, <<InfoRow(direct.row)>>, ""),
                          loaded, cache, FALSE, TRUE)
             ELSE IF F.raised
                  THEN ToolRes(Raised("OperationalError"), F.loaded, F.cache, TRUE, FALSE)
             ELSE IF ~Truthy(F.res) THEN ToolRes(miss, F.loaded, F.cache, TRUE, FALSE)
             ELSE IF ~_get_connection
                  THEN ToolRes(_kaggle_unavailable_message, F.loaded, F.cache, TRUE, FALSE)
             ELSE IF ~TableReadable
                  THEN ToolRes(Raised("OperationalError"), F.loaded, F.cache, TRUE, FALSE)
             ELSE IF ~again.found THEN ToolRes(miss, F.loaded, F.cache, TRUE, FALSE)
             ELSE ToolRes(Out("ok", title, NoLimit, <<InfoRow(again.row)>>, ""),
                          F.loaded, F.cache, TRUE, FALSE)

kaggle_movie_rating(title, loaded, cache) ==
    IF ~_get_connection THEN ToolRes(_kaggle_unavailable_message, loaded, cache, FALSE, FALSE)
    ELSE IF ~TableReadable
         THEN ToolRes(Raised("OperationalError"), loaded, cache, FALSE, FALSE)
    ELSE LET norm == _normalize(title)
             direct == FetchOne(TitleLikeRows(norm))
             F == _fuzzy_find_best_title(title, loaded, cache)
             again == FetchOne(TitleEqualRows(F.res.title))
             miss == Out("not_found", title, NoLimit, <<>>, "")
         IN  IF direct.found
             THEN ToolRes(Out("ok", title, NoLimit, <<RatingRow(direct.row)>>, ""),
                          loaded, cache, FALSE, TRUE)
             ELSE IF F.raised
                  THEN ToolRes(Raised("OperationalError"), F.loaded, F.cache, TRUE, FALSE)
             ELSE IF ~Truthy(F.res) THEN ToolRes(miss, F.loaded, F.cache, TRUE, FALSE)
             ELSE IF ~_get_connection
                  THEN ToolRes(_kaggle_unavailable_message, F.loaded, F.cache, TRUE, FALSE)
             ELSE IF ~TableReadable
                  THEN ToolRes(Raised("OperationalError"), F.loaded, F.cache, TRUE, FALSE)
             ELSE IF ~again.found THEN ToolRes(miss, F.loaded, F.cache, TRUE, FALSE)
             ELSE ToolRes(Out("ok", title, NoLimit, <<RatingRow(again.row)>>, ""),
                          F.loaded, F.cache, TRUE, FALSE)

\* The parameters are built, int(limit) included, before conn.execute runs.
kaggle_movies_with_actor(actor, limit, loaded, cache) ==
    IF ~_get_connection THEN ToolRes(_kaggle_unavailable_message, loaded, cache, FALSE, FALSE)
    ELSE LET norm == _normalize(actor)
             n == IntOf(limit)
             hits == SelectSeq(movies,
                         LAMBDA r : \E k \in 1..4 : ColLike(r.stars[k], norm))
             rows == SqlLimit(OrderByRatingDesc(hits), n.v)
         IN  IF ~n.ok THEN ToolRes(Raised("ValueError"), loaded, cache, FALSE, FALSE)
             ELSE IF ~TableReadable
                  THEN ToolRes(Raised("OperationalError"), loaded, cache, FALSE, FALSE)
             ELSE IF rows = <<>>
                  THEN ToolRes(Out("not_found", actor, NoLimit, <<>>, ""),
                               loaded, cache, FALSE, FALSE)
             ELSE ToolRes(Out("ok", actor, NoLimit,
                              [i \in 1..Len(rows) |-> ListRow(rows[i])], ""),
                          loaded, cache, FALSE, FALSE)

\* The heading of the answer repeats limit as it was passed.
kaggle_top_by_genre(genre, limit, loaded, cache) ==
    IF ~_get_connection THEN ToolRes(_kaggle_unavailable_message, loaded, cache, FALSE, FALSE)
    ELSE LET norm == _normalize(genre)
             n == IntOf(limit)
             hits == SelectSeq(movies, LAMBDA r : ColLike(r.genre, norm))
             rows == SqlLimit(OrderByRatingDesc(hits), n.v)
         IN  IF ~n.ok THEN ToolRes(Raised("ValueError"), loaded, cache, FALSE, FALSE)
             ELSE IF ~TableReadable
                  THEN ToolRes(Raised("OperationalError"), loaded, cache, FALSE, FALSE)
             ELSE IF rows = <<>>
                  THEN ToolRes(Out("not_found", genre, NoLimit, <<>>, ""),
                               loaded, cache, FALSE, FALSE)
             ELSE ToolRes(Out("ok", genre, limit,
                              [i \in 1..Len(rows) |-> ListRow(rows[i])], ""),
                          loaded, cache, FALSE, FALSE)

kaggle_search_by_keyword(keyword, limit, loaded, cache) ==
    IF ~_get_connection THEN ToolRes(_kaggle_unavailable_message, loaded, cache, FALSE, FALSE)
    ELSE LET norm == _normalize(keyword)
             n == IntOf(limit)
             hits == SelectSeq(movies, LAMBDA r : ColLike(r.overview, norm))
             rows == SqlLimit(hits, n.v)
         IN  IF ~n.ok THEN ToolRes(Raised("ValueError"), loaded, cache, FALSE, FALSE)
             ELSE IF ~TableReadable
                  THEN ToolRes(Raised("OperationalError"), loaded, cache, FALSE, FALSE)
             ELSE IF rows = <<>>
                  THEN ToolRes(Out("not_found", keyword, NoLimit, <<>>, ""),
                               loaded, cache, FALSE, FALSE)
             ELSE ToolRes(Out("ok", keyword, NoLimit,
                              [i \in 1..Len(rows) |-> KeywordRow(rows[i])], ""),
                          loaded, cache, FALSE, FALSE)

(***************************************************************************)
(* State machine                                                           *)
(***************************************************************************)
FiveTools ==
    {"kaggle_movie_info", "kaggle_movie_rating", "kaggle_movies_with_actor",
     "kaggle_top_by_genre", "kaggle_search_by_keyword"}

LimitTools == {"kaggle_movies_with_actor", "kaggle_top_by_genre", "kaggle_search_by_keyword"}

Call(tool, q, limit, out, fuzzy, direct) ==
    [tool |-> tool, q |-> q, limit |-> limit, out |-> out, fuzzy |-> fuzzy, direct |-> direct]

NoCall == Call("none", <<>>, NoLimit, Out("none", <<>>, NoLimit, <<>>, ""), FALSE, FALSE)

(***************************************************************************)
(* Concurrent callers of _load_movies_cache / _fuzzy_find_best_title        *)
(***************************************************************************)
Threads == {"t1", "t2", "t3"}

\* A thread that has not entered _fuzzy_find_best_title yet.
ThreadStart ==
    [pc |-> "line93", sawLoaded |-> FALSE, rows |-> <<>>, cache |-> <<>>, seen |-> <<>>]

LoadIdle ==
    /\ thread = [t \in Threads |-> ThreadStart]
    /\ storeReads = 0
    /\ cacheAssigns = 0

LevIdle ==
    /\ levArgs = << <<>>, <<>> >>
    /\ levResult = <<>>

\* The rest state of the components a specification does not exercise.
(***************************************************************************)
(* memory.py: Message, Memory                                              *)
(***************************************************************************)
MAX_HISTORY == 100

Message(role, content) == [role |-> role, content |-> content]

\* The profile of a fresh Memory (only the name is modelled; the lists of
\* genres, actors, directors and movies stay empty on the inputs used here).
DefaultProfile == [name |-> "None"]

\* A faulty variant of LastMessages: the oldest n messages are kept.
FirstMessages(h, n) == IF Len(h) > n THEN SubSeq(h, 1, n) ELSE h

\* h[-n:] for n > 0: the last n elements, or all of h when it is shorter.
LastMessages(h, n) == IF Len(h) > n THEN SubSeq(h, Len(h) - n + 1, Len(h)) ELSE h

\* Memory._save(): the file is rewritten with the profile and the history.
_save(prof, h) == [exists |-> TRUE, profile |-> prof, history |-> h]

NoMemoryFile == [exists |-> FALSE, profile |-> DefaultProfile, history |-> <<>>]

\* Memory.add(role, content): the history after the call, and whether
\* _save() was reached.
Memory_add(h, role, content) ==
    IF role \notin {"user", "assistant"} THEN [history |-> h, saved |-> FALSE]
    ELSE LET appended == Append(h, Message(role, content))
         IN  [history |-> IF Len(appended) > MAX_HISTORY
                          THEN LastMessages(appended, MAX_HISTORY)
                          ELSE appended,
              saved |-> TRUE]

MemoryIdle ==
    /\ history = <<>>
    /\ profile = DefaultProfile
    /\ memoryFile = NoMemoryFile
    /\ adds = 0

AgentIdle ==
    /\ agentPc = "input"
    /\ userInput = ""
    /\ messages = <<>>
    /\ step = 0
    /\ final_answer_done = FALSE
    /\ turns = 0
    /\ llmCalls = 0
    /\ turnAdds = <<>>

\* The rest state of the components a specification does not exercise.
others == <<loadVars, levVars, memVars, agentVars>>
OthersIdle == LoadIdle /\ LevIdle /\ MemoryIdle /\ AgentIdle

notLoad == <<levVars, memVars, agentVars>>
notLev == <<vars, loadVars, memVars, agentVars>>
notMemory == <<vars, loadVars, levVars, agentVars>>
notAgent == <<vars, loadVars, levVars, adds>>

\* Module import: the cache globals as assigned at module level.  The
\* dataset file is whatever the environment left.
Init ==
    /\ dbState \in {"absent", "notable", "ok"}
    /\ movies \in (IF dbState = "ok" THEN Catalogs ELSE {<<>>})
    /\ _MOVIES_CACHE = <<>>
    /\ _MOVIES_CACHE_LOADED = FALSE
    /\ lastCall = NoCall
    /\ OthersIdle

\* A call is made when the previous outcome has been taken by its caller;
\* the call runs to its end and leaves its outcome in lastCall.
Finish(tool, q, limit, R) ==
    /\ lastCall = NoCall
    /\ _MOVIES_CACHE' = R.cache
    /\ _MOVIES_CACHE_LOADED' = R.loaded
    /\ lastCall' = Call(tool, q, limit, R.out, R.fuzzy, R.direct)
    /\ UNCHANGED <<dbState, movies, others>>

MovieInfo ==
    \E title \in TitleQueries :
        Finish("kaggle_movie_info", title, NoLimit,
               kaggle_movie_info(title, _MOVIES_CACHE_LOADED, _MOVIES_CACHE))

MovieRating ==
    \E title \in TitleQueries :
        Finish("kaggle_movie_rating", title, NoLimit,
               kaggle_movie_rating(title, _MOVIES_CACHE_LOADED, _MOVIES_CACHE))

MoviesWithActor ==
    \E actor \in Keywords, limit \in Limits :
        Finish("kaggle_movies_with_actor", actor, limit,
               kaggle_movies_with_actor(actor, limit, _MOVIES_CACHE_LOADED, _MOVIES_CACHE))

TopByGenre ==
    \E genre \in Keywords, limit \in Limits :
        Finish("kaggle_top_by_genre", genre, limit,
               kaggle_top_by_genre(genre, limit, _MOVIES_CACHE_LOADED, _MOVIES_CACHE))

SearchByKeyword ==
    \E keyword \in Keywords, limit \in Limits :
        Finish("kaggle_search_by_keyword", keyword, limit,
               kaggle_search_by_keyword(keyword, limit, _MOVIES_CACHE_LOADED, _MOVIES_CACHE))

\* A direct call of the load step.
LoadMoviesCache ==
    LET L == _load_movies_cache(_MOVIES_CACHE_LOADED, _MOVIES_CACHE)
    IN  Finish("_load_movies_cache", <<>>, NoLimit,
               ToolRes(IF L.raised THEN Raised("OperationalError")
                       ELSE Out("returned", <<>>, NoLimit, <<>>, ""),
                       L.loaded, L.cache, FALSE, FALSE))

\* A direct call of the matcher.
FuzzyFindBestTitle ==
    \E query \in TitleQueries :
        LET F == _fuzzy_find_best_title(query, _MOVIES_CACHE_LOADED, _MOVIES_CACHE)
        IN  Finish("_fuzzy_find_best_title", query, NoLimit,
                   ToolRes(IF F.raised THEN Raised("OperationalError")
                           ELSE IF F.res.found THEN Out("title", F.res.title, NoLimit, <<>>, "")
                           ELSE Out("None", <<>>, NoLimit, <<>>, ""),
                           F.loaded, F.cache, TRUE, FALSE))

\* build_kaggle_db.main(): the table is replaced by the rows of the CSV.
BuildKaggleDb ==
    \E rows \in Catalogs :
        /\ lastCall = NoCall
        /\ dbState' = "ok"
        /\ movies' = rows
        /\ lastCall' = NoCall
        /\ UNCHANGED <<_MOVIES_CACHE, _MOVIES_CACHE_LOADED, others>>

\* The environment removes the dataset file.
RemoveDbFile ==
    /\ lastCall = NoCall
    /\ dbState # "absent"
    /\ dbState' = "absent"
    /\ movies' = <<>>
    /\ lastCall' = NoCall
    /\ UNCHANGED <<_MOVIES_CACHE, _MOVIES_CACHE_LOADED, others>>

\* The environment leaves a file without the table movies (for instance a
\* file created by sqlite3.connect before any table was written).
LeaveFileWithoutTable ==
    /\ lastCall = NoCall
    /\ dbState # "notable"
    /\ dbState' = "notable"
    /\ movies' = <<>>
    /\ lastCall' = NoCall
    /\ UNCHANGED <<_MOVIES_CACHE, _MOVIES_CACHE_LOADED, others>>

\* The caller takes the outcome of the call (the agent appends it to the
\* conversation, or prints the exception text).
TakeResult ==
    /\ lastCall # NoCall
    /\ lastCall' = NoCall
    /\ UNCHANGED <<dbState, movies, _MOVIES_CACHE, _MOVIES_CACHE_LOADED, others>>

Next ==
    \/ TakeResult
    \/ MovieInfo
    \/ MovieRating
    \/ MoviesWithActor
    \/ TopByGenre
    \/ SearchByKeyword
    \/ LoadMoviesCache
    \/ FuzzyFindBestTitle
    \/ BuildKaggleDb
    \/ RemoveDbFile
    \/ LeaveFileWithoutTable

Spec == Init /\ [][Next]_vars

(***************************************************************************)
(* Concurrent first use: each thread runs _fuzzy_find_best_title once, one  *)
(* statement of _load_movies_cache at a time.  No lock is taken anywhere.   *)
(* The dataset file does not change while the threads run.                  *)
(***************************************************************************)
\* A faulty variant of AppendEntry: the item goes into the shared list.
AppendEntryToShared(shared, local, row) ==
    [shared |-> Append(shared, CacheItem(row)), local |-> Append(local, CacheItem(row))]

\* cache.append({...}): the item goes into the local list only.
AppendEntry(shared, local, row) ==
    [shared |-> shared, local |-> Append(local, CacheItem(row))]

\* A faulty variant of AssignCache: the global keeps its old value.
AssignSkipped(shared, local) == shared

\* _MOVIES_CACHE = cache: the global is rebound to the finished local list.
AssignCache(shared, local) == local

At(t, label) == thread[t].pc = label

Goto(t, label) == thread' = [thread EXCEPT ![t].pc = label]

\* if _MOVIES_CACHE_LOADED: return
CheckLoaded(t) ==
    /\ At(t, "line93")
    /\ thread' = [thread EXCEPT ![t].sawLoaded = _MOVIES_CACHE_LOADED,
                                ![t].pc = IF _MOVIES_CACHE_LOADED THEN "line185" ELSE "line96"]
    /\ UNCHANGED <<vars, storeReads, cacheAssigns, notLoad>>

\* conn = _get_connection(); if not conn: ...
Connect(t) ==
    /\ At(t, "line96")
    /\ Goto(t, IF _get_connection THEN "line103" ELSE "line98")
    /\ UNCHANGED <<vars, storeReads, cacheAssigns, notLoad>>

\* _MOVIES_CACHE = []
AssignEmpty(t) ==
    /\ At(t, "line98")
    /\ _MOVIES_CACHE' = <<>>
    /\ cacheAssigns' = cacheAssigns + 1
    /\ Goto(t, "line99")
    /\ UNCHANGED <<dbState, movies, _MOVIES_CACHE_LOADED, lastCall, storeReads, notLoad>>

\* _MOVIES_CACHE_LOADED = True; return
SetLoadedEmpty(t) ==
    /\ At(t, "line99")
    /\ _MOVIES_CACHE_LOADED' = TRUE
    /\ Goto(t, "line185")
    /\ UNCHANGED <<dbState, movies, _MOVIES_CACHE, lastCall, storeReads, cacheAssigns, notLoad>>

\* conn.execute(...); rows = cur.fetchall(); cache = []
Fetch(t) ==
    /\ At(t, "line103")
    /\ TableReadable
    /\ thread' = [thread EXCEPT ![t].rows = movies, ![t].cache = <<>>, ![t].pc = "line122"]
    /\ storeReads' = storeReads + 1
    /\ UNCHANGED <<vars, cacheAssigns, notLoad>>

\* conn.execute raises sqlite3.OperationalError; finally closes; the
\* exception leaves _load_movies_cache and _fuzzy_find_best_title.
FetchRaises(t) ==
    /\ At(t, "line103")
    /\ ~TableReadable
    /\ Goto(t, "raised")
    /\ UNCHANGED <<vars, storeReads, cacheAssigns, notLoad>>

\* One pass of  for row in rows: ... cache.append(...)
BuildStep(t) ==
    /\ At(t, "line122")
    /\ Len(thread[t].cache) < Len(thread[t].rows)
    /\ LET row == thread[t].rows[Len(thread[t].cache) + 1]
           A == AppendEntry(_MOVIES_CACHE, thread[t].cache, row)
       IN  /\ _MOVIES_CACHE' = A.shared
           /\ thread' = [thread EXCEPT ![t].cache = A.local]
    /\ UNCHANGED <<dbState, movies, _MOVIES_CACHE_LOADED, lastCall, storeReads, cacheAssigns, notLoad>>

\* _MOVIES_CACHE = cache
Assign(t) ==
    /\ At(t, "line122")
    /\ Len(thread[t].cache) = Len(thread[t].rows)
    /\ _MOVIES_CACHE' = AssignCache(_MOVIES_CACHE, thread[t].cache)
    /\ cacheAssigns' = cacheAssigns + 1
    /\ Goto(t, "line138")
    /\ UNCHANGED <<dbState, movies, _MOVIES_CACHE_LOADED, lastCall, storeReads, notLoad>>

\* _MOVIES_CACHE_LOADED = True
SetLoaded(t) ==
    /\ At(t, "line138")
    /\ _MOVIES_CACHE_LOADED' = TRUE
    /\ Goto(t, "line185")
    /\ UNCHANGED <<dbState, movies, _MOVIES_CACHE, lastCall, storeReads, cacheAssigns, notLoad>>

\* if not _MOVIES_CACHE: return None
ReadEntries(t) ==
    /\ At(t, "line185")
    /\ thread' = [thread EXCEPT ![t].seen = _MOVIES_CACHE,
                                ![t].pc = IF _MOVIES_CACHE = <<>> THEN "returned" ELSE "line195"]
    /\ UNCHANGED <<vars, storeReads, cacheAssigns, notLoad>>

\* for item in _MOVIES_CACHE: the list the global names now is scanned.
ScanEntries(t) ==
    /\ At(t, "line195")
    /\ thread' = [thread EXCEPT ![t].seen = _MOVIES_CACHE, ![t].pc = "returned"]
    /\ UNCHANGED <<vars, storeReads, cacheAssigns, notLoad>>

InitLoad == Init

\* The catalog tools at rest: no dataset file, nothing cached, no call made.
KaggleIdle ==
    /\ dbState = "absent"
    /\ movies = <<>>
    /\ _MOVIES_CACHE = <<>>
    /\ _MOVIES_CACHE_LOADED = FALSE
    /\ lastCall = NoCall

NextLoad ==
    \E t \in Threads :
        \/ CheckLoaded(t)
        \/ Connect(t)
        \/ AssignEmpty(t)
        \/ SetLoadedEmpty(t)
        \/ Fetch(t)
        \/ FetchRaises(t)
        \/ BuildStep(t)
        \/ Assign(t)
        \/ SetLoaded(t)
        \/ ReadEntries(t)
        \/ ScanEntries(t)

SpecLoad == InitLoad /\ [][NextLoad]_<<vars, loadVars>>

(***************************************************************************)
(* _levenshtein called on every pair of short strings                       *)
(***************************************************************************)
LevAlphabet == {"a", "b"}
LevStrings == SeqsUpTo(LevAlphabet, MaxLevLen)

InitLev ==
    /\ levArgs \in LevStrings \X LevStrings
    /\ levResult = <<>>
    /\ KaggleIdle
    /\ LoadIdle
    /\ MemoryIdle
    /\ AgentIdle

Levenshtein ==
    /\ levResult = <<>>
    /\ levResult' = <<_levenshtein(levArgs[1], levArgs[2])>>
    /\ UNCHANGED <<levArgs, notLev>>

NextLev == Levenshtein

SpecLev == InitLev /\ [][NextLev]_<<vars, levVars>>

(***************************************************************************)
(* Memory.add called on a Memory loaded from any file                       *)
(***************************************************************************)
Content(kind, n) == [kind |-> kind, n |-> n]

\* A history as _load() takes it from the file: n messages, numbered in
\* order; _load() neither filters roles nor truncates.
StoredHistory(n) ==
    [i \in 1..n |->
        Message(IF i % 7 = 0 THEN "tool" ELSE IF i % 2 = 1 THEN "user" ELSE "assistant",
                Content("stored", i))]

StoredLengths == {0, 1, 99, 100, 101, 150}

AddRoles == {"user", "assistant", "tool", "system"}
AddContents == {Content("new", 1), Content("new", 2)}

InitMemory ==
    /\ \E n \in StoredLengths :
           /\ history = StoredHistory(n)
           /\ memoryFile = IF n = 0 THEN NoMemoryFile ELSE _save(DefaultProfile, StoredHistory(n))
    /\ profile = DefaultProfile
    /\ adds = 0
    /\ KaggleIdle
    /\ LoadIdle
    /\ LevIdle
    /\ AgentIdle

MemoryAdd(role, content) ==
    /\ adds < MaxAdds
    /\ LET A == Memory_add(history, role, content)
       IN  /\ history' = A.history
           /\ memoryFile' = IF A.saved THEN _save(profile, A.history) ELSE memoryFile
    /\ adds' = adds + 1
    /\ UNCHANGED <<profile, notMemory>>

NextMemory == \E role \in AddRoles, content \in AddContents : MemoryAdd(role, content)

SpecMemory == InitMemory /\ [][NextMemory]_memVars

(***************************************************************************)
(* agent.py: run_agent, the chat / tool-calling loop                        *)
(*                                                                         *)
(* Texts are Content(body, n): n = 0 for a text without an explanation      *)
(* line, 1 for a text that carries its own, 2 for one format_final_answer   *)
(* has appended the formal explanation to.  Russian texts are written in    *)
(* Latin letters.                                                          *)
(***************************************************************************)
STEP_LIMIT == 8
HISTORY_WINDOW == 12

\* What the user types (already stripped).
UserInputs == {"menya zovut Anya", "kak menya zovut", "/EXIT", "poka"}

\* user_input.lower()
LowerInput(text) == IF text = "/EXIT" THEN "/exit" ELSE text

ExitCommands == {"/exit", "vyhod", "poka"}

ByeText == Content("Svyaz zavershaetsya...", 0)
NoAnswerText == Content("Ya ne smog sformirovat osmyslennyi otvet.", 0)
FallbackText == Content("... ya dostig limita shagov rassuzhdeniya.", 0)
NoDirectAnswer == Content("None", 0)

format_final_answer(raw) ==
    IF raw.kind = "" THEN Content(NoAnswerText.kind, 1)
    ELSE IF raw.n = 1 THEN raw
    ELSE Content(raw.kind, 2)

\* Memory.update_from_user_text on the inputs above: only the name pattern
\* "menya zovut <name>" matches any of them.
update_from_user_text(prof, text) ==
    IF text = "menya zovut Anya" THEN [prof EXCEPT !.name = "Anya"] ELSE prof

answer_from_memory_if_applicable(user_text, prof) ==
    IF LowerInput(user_text) = "kak menya zovut"
    THEN (IF prof.name # "None" THEN Content("Tebya zovut Anya.", 0)
          ELSE Content("Ya eshche ne znayu, kak tebya zovut.", 0))
    ELSE NoDirectAnswer

\* One element of the list messages.
ChatMsg(role, content, tool_calls, tool_call_id, name) ==
    [role |-> role, content |-> content, tool_calls |-> tool_calls,
     tool_call_id |-> tool_call_id, name |-> name]

PlainMsg(role, content) == ChatMsg(role, content, <<>>, "", "")

SystemPrompt(prof) == Content("SYSTEM_PROMPT", IF prof.name # "None" THEN 1 ELSE 0)

build_messages(h, prof, user_input) ==
    LET recent == LastMessages(h, HISTORY_WINDOW)
        kept == SelectSeq(recent, LAMBDA m : m.role \in {"user", "assistant"})
    IN  <<PlainMsg("system", SystemPrompt(prof))>>
            \o [i \in 1..Len(kept) |-> PlainMsg(kept[i].role, kept[i].content)]
            \o <<PlainMsg("user", Content(user_input, 0))>>

\* tools.TOOLS
TOOLS == FiveTools \cup {"omdb_movie_info", "omdb_movie_rating", "omdb_search"}

\* One element of msg.tool_calls, with how the tool behaves when it is
\* called with arguments.
ToolCall(id, name, arguments, behaviour) ==
    [id |-> id, name |-> name, arguments |-> arguments, behaviour |-> behaviour]

\* What the LLM may ask for in one message.
ToolCallLists ==
    { << ToolCall("call_1", "kaggle_movie_info", "json dict", "returns") >>,
      << ToolCall("call_1", "no_such_tool", "json dict", "returns"),
         ToolCall("call_2", "kaggle_movie_rating", "bad json", "returns"),
         ToolCall("call_1", "omdb_search", "dict", "raises"),
         ToolCall("call_3", "kaggle_top_by_genre", "json list", "returns") >> }

\* msg.content of a message without tool calls.
FinalContents == {Content("", 0), Content("otvet", 0), Content("otvet. Poyasnenie: ...", 1)}

LlmResponses ==
    {[tool_calls |-> <<>>, content |-> c] : c \in FinalContents}
        \cup {[tool_calls |-> l, content |-> Content("", 0)] : l \in ToolCallLists}

\* args after the parsing block: the given dict, or {}.
ParseArgs(raw_args) == IF raw_args \in {"dict", "json dict"} THEN "given" ELSE "empty"

ErrToolNotFound == Content("[ERROR] Instrument ne naiden.", 0)
ErrToolFailed == Content("[ERROR] Oshibka instrumenta", 0)
ToolReturned == Content("tool result", 0)

\* result of one pass of the loop over msg.tool_calls; a tool called with
\* {} raises TypeError (every tool has a required parameter).
ToolResult(tc) ==
    IF tc.name \notin TOOLS THEN ErrToolNotFound
    ELSE IF ParseArgs(tc.arguments) = "empty" \/ tc.behaviour = "raises" THEN ErrToolFailed
    ELSE ToolReturned

\* The entry of assistant_msg["tool_calls"] for tc.
AssistantToolCall(tc) == [id |-> tc.id, name |-> tc.name, arguments |-> tc.arguments]

AssistantMsg(tcs) ==
    ChatMsg("assistant", Content("", 0), [i \in 1..Len(tcs) |-> AssistantToolCall(tcs[i])], "", "")

\* A faulty variant of RunToolCalls: nothing is appended for an unknown tool.
RECURSIVE RunToolCallsSkipUnknown(_, _)
RunToolCallsSkipUnknown(msgs, tcs) ==
    IF tcs = <<>> THEN msgs
    ELSE LET tc == Head(tcs)
         IN  RunToolCallsSkipUnknown(
                 IF tc.name \notin TOOLS THEN msgs
                 ELSE Append(msgs, ChatMsg("tool", ToolResult(tc), <<>>, tc.id, tc.name)),
                 Tail(tcs))

\* for tc in msg.tool_calls: ... messages.append({"role": "tool", ...})
RECURSIVE RunToolCalls(_, _)
RunToolCalls(msgs, tcs) ==
    IF tcs = <<>> THEN msgs
    ELSE LET tc == Head(tcs)
         IN  RunToolCalls(Append(msgs, ChatMsg("tool", ToolResult(tc), <<>>, tc.id, tc.name)),
                          Tail(tcs))

\* A faulty variant of NeedsFallback: the fallback is added after every loop.
FallbackAlways(done) == TRUE

\* if not final_answer_done
NeedsFallback(done) == ~done

InitAgent ==
    /\ \E n \in {0, 99} :
           /\ history = StoredHistory(n)
           /\ memoryFile = IF n = 0 THEN NoMemoryFile ELSE _save(DefaultProfile, StoredHistory(n))
    /\ profile = DefaultProfile
    /\ adds = 0
    /\ AgentIdle
    /\ KaggleIdle
    /\ LoadIdle
    /\ LevIdle

\* input(), then the turn up to its first LLM call.
ReadInput ==
    \E input \in UserInputs :
        /\ agentPc = "input"
        /\ turns < MaxTurns
        /\ turns' = turns + 1
        /\ userInput' = input
        /\ llmCalls' = 0
        /\ step' = 0
        /\ final_answer_done' = FALSE
        /\ IF LowerInput(input) \in ExitCommands
           THEN LET A == Memory_add(history, "assistant", format_final_answer(ByeText))
                IN  /\ history' = A.history
                    /\ memoryFile' = _save(profile, A.history)
                    /\ profile' = profile
                    /\ messages' = <<>>
                    /\ turnAdds' = <<"assistant">>
                    /\ agentPc' = "exited"
           ELSE LET A1 == Memory_add(history, "user", Content(input, 0))
                    P == update_from_user_text(profile, input)
                    direct == answer_from_memory_if_applicable(input, P)
                    A2 == Memory_add(A1.history, "assistant", format_final_answer(direct))
                IN  /\ profile' = P
                    /\ IF direct # NoDirectAnswer
                       THEN /\ history' = A2.history
                            /\ memoryFile' = _save(P, A2.history)
                            /\ messages' = <<>>
                            /\ turnAdds' = <<"user", "assistant">>
                            /\ agentPc' = "input"
                       ELSE /\ history' = A1.history
                            /\ memoryFile' = _save(P, A1.history)
                            /\ messages' = build_messages(A1.history, P, input)
                            /\ turnAdds' = <<"user">>
                            /\ agentPc' = "llm"
        /\ UNCHANGED notAgent

\* client.chat.completions.create returns; one pass of the step loop.
LlmReturns ==
    \E resp \in LlmResponses :
        /\ agentPc = "llm"
        /\ llmCalls' = llmCalls + 1
        /\ IF resp.tool_calls = <<>>
           THEN LET raw == IF resp.content.kind = "" THEN NoAnswerText ELSE resp.content
                    A == Memory_add(history, "assistant", format_final_answer(raw))
                IN  /\ history' = A.history
                    /\ memoryFile' = _save(profile, A.history)
                    /\ turnAdds' = Append(turnAdds, "assistant")
                    /\ final_answer_done' = TRUE
                    /\ agentPc' = "after_loop"
                    /\ UNCHANGED <<messages, step>>
           ELSE /\ messages' = RunToolCalls(Append(messages, AssistantMsg(resp.tool_calls)),
                                            resp.tool_calls)
                /\ step' = step + 1
                /\ agentPc' = IF step + 1 < STEP_LIMIT THEN "llm" ELSE "after_loop"
                /\ UNCHANGED <<history, memoryFile, turnAdds, final_answer_done>>
        /\ UNCHANGED <<profile, userInput, turns, notAgent>>

\* After the step loop: the fallback answer; the turn ends and messages is
\* dropped (the next turn builds a new list).
AfterLoop ==
    /\ agentPc = "after_loop"
    /\ IF NeedsFallback(final_answer_done)
       THEN LET A == Memory_add(history, "assistant", format_final_answer(FallbackText))
            IN  /\ history' = A.history
                /\ memoryFile' = _save(profile, A.history)
                /\ turnAdds' = Append(turnAdds, "assistant")
       ELSE UNCHANGED <<history, memoryFile, turnAdds>>
    /\ messages' = <<>>
    /\ agentPc' = "input"
    /\ UNCHANGED <<profile, userInput, step, final_answer_done, turns, llmCalls, notAgent>>

NextAgent ==
    \/ ReadInput
    \/ LlmReturns
    \/ AfterLoop

SpecAgent == InitAgent /\ [][NextAgent]_<<memVars, agentVars>>

(***************************************************************************)
(* Properties                                                              *)
(***************************************************************************)
Find == "_fuzzy_find_best_title"
Load == "_load_movies_cache"

\* The limits of the pool that int() rejects, written out.
NonCoercible == {StrL(<<"a", "b", "c">>), StrL(<<>>)}

\* The score of cache item i for the normalized query, and the first index
\* of a maximal score.
ScoreAt(cache, qn, i) == _fuzzy_score(qn, cache[i])

FirstMaxIndex(cache, qn) ==
    CHOOSE i \in 1..Len(cache) :
        /\ \A j \in 1..Len(cache) : ~FLess(ScoreAt(cache, qn, i), ScoreAt(cache, qn, j))
        /\ \A j \in 1..(i - 1) : FLess(ScoreAt(cache, qn, j), ScoreAt(cache, qn, i))

\* C1: each of the five tools always returns a string and never lets an
\* exception reach its caller, whatever the input and the state of the store.
C1_ToolsNeverRaise ==
    lastCall.tool \in FiveTools => lastCall.out.kind # "raised"

\* C2: with the dataset file absent at the call, each of the five tools
\* returns the one uniform "unavailable" message, whatever its arguments and
\* whatever the state of the cache.
C2_UnavailableWhenAbsent ==
    (lastCall.tool \in FiveTools /\ dbState = "absent")
        => lastCall.out = _kaggle_unavailable_message

C2_Witness ==
    /\ lastCall.tool = "kaggle_movies_with_actor"
    /\ lastCall.limit \in NonCoercible
    /\ dbState = "absent"
    /\ _MOVIES_CACHE_LOADED
    /\ _MOVIES_CACHE # <<>>
    /\ lastCall.out = _kaggle_unavailable_message

\* C3: once a load step has completed, no later step (load, query, tool,
\* change of the store) changes the loaded flag or the cache items.
C3_LoadedOnce ==
    [][_MOVIES_CACHE_LOADED
         => (_MOVIES_CACHE_LOADED' /\ _MOVIES_CACHE' = _MOVIES_CACHE)]_vars

C3_Witness ==
    /\ lastCall.tool = Load
    /\ _MOVIES_CACHE_LOADED
    /\ _MOVIES_CACHE # <<>>
    /\ dbState = "ok"
    /\ movies # <<>>
    /\ _MOVIES_CACHE # BuildCache(movies)

\* C4: a first load that finds the store unreachable (no file, or a file
\* that cannot be read) surfaces no error and leaves the cache loaded and
\* empty.
C4_UnreachableLoadsEmpty ==
    [][(lastCall = NoCall /\ lastCall'.tool = Load
          /\ ~_MOVIES_CACHE_LOADED /\ dbState # "ok")
         => (lastCall'.out.kind # "raised"
               /\ _MOVIES_CACHE_LOADED' /\ _MOVIES_CACHE' = <<>>)]_vars

\* C5: a query whose normalized form equals the normalized title of some
\* cache item gets the title of an item with that normalized title.
C5_ExactMatchWins ==
    LET qn == _normalize(lastCall.q)
        same == {i \in 1..Len(_MOVIES_CACHE) : _MOVIES_CACHE[i].title_norm = qn}
    IN  (lastCall.tool = Find /\ qn # <<>> /\ same # {})
            => /\ lastCall.out.kind = "title"
               /\ \E i \in same : _MOVIES_CACHE[i].title = lastCall.out.arg

\* C6: for a non-empty normalized query on a non-empty cache the matcher
\* returns None exactly when the maximal score is below 0.6, and otherwise
\* the title of the first item, in cache order, that has the maximal score.
C6_FirstMaxOrNone ==
    LET qn == _normalize(lastCall.q)
        i == FirstMaxIndex(_MOVIES_CACHE, qn)
    IN  (lastCall.tool = Find /\ qn # <<>> /\ _MOVIES_CACHE # <<>>)
            => IF FLess(ScoreAt(_MOVIES_CACHE, qn, i), THRESHOLD)
               THEN lastCall.out.kind = "None"
               ELSE /\ lastCall.out.kind = "title"
                    /\ lastCall.out.arg = _MOVIES_CACHE[i].title

\* Two items with different titles tie at the maximal score, which is at
\* least the threshold, and the matcher answered with a title.
C6_Witness ==
    LET qn == _normalize(lastCall.q)
    IN  /\ lastCall.tool = Find
        /\ lastCall.out.kind = "title"
        /\ Len(_MOVIES_CACHE) >= 2
        /\ \E i, j \in 1..Len(_MOVIES_CACHE) :
              /\ i < j
              /\ i = FirstMaxIndex(_MOVIES_CACHE, qn)
              /\ FEq(ScoreAt(_MOVIES_CACHE, qn, i), ScoreAt(_MOVIES_CACHE, qn, j))
              /\ _MOVIES_CACHE[i].title # _MOVIES_CACHE[j].title

\* C7: a matcher call whose query is empty after normalization does no
\* index work: the loaded flag and the cache items are as before the call.
C7_EmptyQueryNoIndexWork ==
    [][(lastCall = NoCall /\ lastCall'.tool = Find /\ _normalize(lastCall'.q) = <<>>)
         => UNCHANGED <<_MOVIES_CACHE, _MOVIES_CACHE_LOADED>>]_vars

\* C8 as stated: a limit that int() rejects makes the cast, genre and
\* keyword tools raise, in every state of the store.
C8_BadLimitAlwaysRaises ==
    (lastCall.tool \in LimitTools /\ lastCall.limit \in NonCoercible)
        => (lastCall.out.kind = "raised" /\ lastCall.out.err = "ValueError")

\* C8 amended: a limit that int() rejects makes the cast, genre and keyword
\* tools raise ValueError whenever the dataset file exists at the call
\* (with or without the table); no result string is returned.
C8_BadLimitRaisesWhenFilePresent ==
    (lastCall.tool \in LimitTools /\ lastCall.limit \in NonCoercible /\ dbState # "absent")
        => (lastCall.out.kind = "raised" /\ lastCall.out.err = "ValueError")

C8_Witness ==
    /\ lastCall.tool = "kaggle_top_by_genre"
    /\ lastCall.limit = StrL(<<"a", "b", "c">>)
    /\ dbState = "ok"
    /\ \E i \in 1..Len(movies) : ColLike(movies[i].genre, _normalize(lastCall.q))
    /\ lastCall.out.kind = "raised"

\* C9 as stated: with the dataset file absent at the call the matcher
\* returns None for every query, after any history.
C9_AbsentStoreNoTitle ==
    (lastCall.tool = Find /\ dbState = "absent") => lastCall.out.kind = "None"

\* C9 amended: with the dataset file absent at the call the matcher returns
\* None for every query when the cache holds no items (never loaded, or
\* loaded empty, before the call: exactly the calls that end with an empty
\* cache); a cache built while the file was present keeps answering.
C9_AbsentStoreEmptyCacheNoTitle ==
    (lastCall.tool = Find /\ dbState = "absent" /\ _MOVIES_CACHE = <<>>)
        => (lastCall.out.kind = "None" /\ _MOVIES_CACHE_LOADED)

C9_Witness ==
    /\ lastCall.tool = Find
    /\ dbState = "absent"
    /\ _MOVIES_CACHE = <<>>
    /\ _MOVIES_CACHE_LOADED
    /\ _normalize(lastCall.q) # <<>>
    /\ lastCall.out.kind = "None"

\* C10: among the tools only the info and rating lookups invoke the matcher,
\* and only when the direct LIKE query on the title found no row; a call
\* that does not invoke it (a direct hit, the cast, genre and keyword tools)
\* leaves the loaded flag and the cache items unchanged.
C10_FuzzyOnlyOnTitleMiss ==
    [][(lastCall = NoCall /\ lastCall'.tool \in FiveTools)
         => /\ lastCall'.fuzzy
                 => /\ lastCall'.tool \in {"kaggle_movie_info", "kaggle_movie_rating"}
                    /\ ~\E i \in 1..Len(movies) :
                           ColLike(movies[i].title, _normalize(lastCall'.q))
            /\ (lastCall'.tool \in LimitTools
                  \/ \E i \in 1..Len(movies) :
                         ColLike(movies[i].title, _normalize(lastCall'.q)))
                 => (~lastCall'.fuzzy
                       /\ UNCHANGED <<_MOVIES_CACHE, _MOVIES_CACHE_LOADED>>)]_vars

C10_Witness ==
    /\ lastCall.tool = "kaggle_movie_info"
    /\ lastCall.direct
    /\ lastCall.out.kind = "ok"
    /\ ~_MOVIES_CACHE_LOADED

\* C11: with a limit that int() turns into n, the cast filter lists at most
\* n movies, each with the actor inside one of its four cast slots, in
\* non-increasing rating order.
C11_ActorListCapped ==
    LET n == IntOf(lastCall.limit)
        rows == lastCall.out.rows
        norm == _normalize(lastCall.q)
    IN  (lastCall.tool = "kaggle_movies_with_actor" /\ lastCall.out.kind = "ok")
            => /\ n.ok
               /\ Len(rows) <= n.v
               /\ \A i \in 1..Len(rows) :
                      \E k \in 1..Len(movies) :
                          /\ ListRow(movies[k]) = rows[i]
                          /\ \E c \in 1..4 : IsSubstr(norm, LowerStr(movies[k].stars[c]))
               /\ \A i, j \in 1..Len(rows) : i < j => rows[i].rating >= rows[j].rating

\* What one full read of the store yields: an item per row, in row order;
\* nothing when the file is absent.
CompleteIndex == IF dbState = "ok" THEN BuildCache(movies) ELSE <<>>

\* C12: with concurrent first use, the store is read at most once and the
\* entries are assigned at most once.
C12_AtMostOneBuild == storeReads <= 1 /\ cacheAssigns <= 1

\* C13: no caller observes a partial index: when the flag is true, when the
\* entries are non-empty, and for whatever a matcher call has read after its
\* load step returned, the entries are the complete result of one full read.
C13_NoPartialIndexObserved ==
    /\ (_MOVIES_CACHE_LOADED \/ _MOVIES_CACHE # <<>>) => _MOVIES_CACHE = CompleteIndex
    /\ \A t \in Threads :
           (At(t, "line195") \/ At(t, "returned")) => thread[t].seen = CompleteIndex

C13_Witness ==
    \E t, u \in Threads :
        /\ At(t, "returned") /\ thread[t].sawLoaded /\ Len(thread[t].seen) = 2
        /\ At(u, "line122") /\ Len(thread[u].cache) = 1

\* C14: the entries are empty or hold exactly one item per row of the table
\* in row order, and after a load step has failed with nothing assigned the
\* entries are empty.
C14_AllOrNothing ==
    /\ \/ _MOVIES_CACHE = <<>>
       \/ /\ Len(_MOVIES_CACHE) = Len(movies)
          /\ \A i \in 1..Len(movies) : _MOVIES_CACHE[i] = CacheItem(movies[i])
    /\ (cacheAssigns = 0 /\ \E t \in Threads : At(t, "raised"))
           => (_MOVIES_CACHE = <<>> /\ ~_MOVIES_CACHE_LOADED)

C14_Witness ==
    \E t, u \in Threads :
        /\ At(t, "line138") /\ Len(_MOVIES_CACHE) = 2
        /\ At(u, "line122") /\ Len(thread[u].cache) = 1

\* The classic unit-cost edit distance, by its defining recursion.
RECURSIVE EditDistance(_, _)
EditDistance(a, b) ==
    IF a = <<>> THEN Len(b)
    ELSE IF b = <<>> THEN Len(a)
    ELSE Min2(EditDistance(Tail(a), b) + 1,
              Min2(EditDistance(a, Tail(b)) + 1,
                   EditDistance(Tail(a), Tail(b)) + (IF Head(a) = Head(b) THEN 0 ELSE 1)))

\* C15: _levenshtein(a, b) is the classic unit-cost edit distance; it is 0
\* on equal arguments, len(a) against the empty string, and symmetric.
C15_LevenshteinIsEditDistance ==
    LET a == levArgs[1]
        b == levArgs[2]
    IN  levResult # <<>>
            => /\ levResult[1] = EditDistance(a, b)
               /\ (a = b => levResult[1] = 0)
               /\ (a = <<>> => levResult[1] = Len(b))
               /\ (b = <<>> => levResult[1] = Len(a))
               /\ levResult[1] = _levenshtein(b, a)

C15_Witness ==
    /\ levArgs = << <<"a", "b", "b">>, <<"b", "a">> >>
    /\ levResult = <<2>>

IsSuffixOf(h, full) ==
    /\ Len(h) <= Len(full)
    /\ \A i \in 1..Len(h) : h[i] = full[Len(full) - Len(h) + i]

\* C18 as stated: after every Memory.add, whatever the history before and
\* whatever the role, the history holds at most MAX_HISTORY messages.
C18_EveryAddBoundsHistory ==
    [][\A role \in AddRoles, content \in AddContents :
          MemoryAdd(role, content) => Len(history') <= MAX_HISTORY]_memVars

\* C18, amended: after Memory.add with role user or assistant the history
\* holds at most MAX_HISTORY messages, the most recent ones (the new message
\* last) in their original order, and the file holds the same; an add with
\* any other role changes neither the history nor the saved file.
C18_AddKeepsMostRecent ==
    [][\A role \in AddRoles, content \in AddContents :
          MemoryAdd(role, content)
              => IF role \in {"user", "assistant"}
                 THEN /\ Len(history') <= MAX_HISTORY
                      /\ Len(history') = Min2(Len(history) + 1, MAX_HISTORY)
                      /\ IsSuffixOf(history', Append(history, Message(role, content)))
                      /\ memoryFile'.exists /\ memoryFile'.history = history'
                 ELSE history' = history /\ memoryFile' = memoryFile]_memVars

C18_Witness ==
    /\ adds = 1
    /\ Len(history) = MAX_HISTORY
    /\ history[1].content = Content("stored", 52)
    /\ history[MAX_HISTORY] = Message("assistant", Content("new", 2))
    /\ memoryFile.history = history

\* The turn of userInput is running: the LLM is about to be called, or the
\* step loop has just been left.
InTurn == agentPc \in {"llm", "after_loop"}

\* The turn of a user input that is not an exit command has ended.
TurnEnded == agentPc = "input" /\ turns > 0

DirectAnswers ==
    {format_final_answer(answer_from_memory_if_applicable(userInput, profile))}

FinalAnswers ==
    {format_final_answer(IF c.kind = "" THEN NoAnswerText ELSE c) : c \in FinalContents}

\* C16: a turn of a non-exit input makes at most 8 LLM calls, can always go
\* on while the LLM calls return, and ends with exactly one assistant message
\* added to memory right after the user message: the direct memory answer
\* (no LLM call), the model's final answer, or the step-limit fallback after
\* 8 steps of tool calls.
C16_TurnEndsWithOneAnswer ==
    /\ llmCalls <= 8
    /\ agentPc = "llm" => (llmCalls = step /\ step < 8 /\ turnAdds = <<"user">>)
    /\ InTurn => ENABLED NextAgent
    /\ TurnEnded =>
           LET n == Len(history)
           IN  /\ turnAdds = <<"user", "assistant">>
               /\ n >= 2
               /\ history[n - 1] = Message("user", Content(userInput, 0))
               /\ history[n].role = "assistant"
               /\ memoryFile.history = history
               /\ \/ llmCalls = 0 /\ history[n].content \in DirectAnswers
                  \/ llmCalls \in 1..8 /\ final_answer_done
                         /\ history[n].content \in FinalAnswers
                  \/ llmCalls = 8 /\ step = 8 /\ ~final_answer_done
                         /\ history[n].content = format_final_answer(FallbackText)

C16_Witness ==
    /\ TurnEnded
    /\ llmCalls = 8
    /\ ~final_answer_done
    /\ Len(history) = MAX_HISTORY
    /\ history[MAX_HISTORY].content = format_final_answer(FallbackText)

\* The messages built before the first LLM call: no tool calls, no tool role.
RECURSIVE PrefixLen(_, _)
PrefixLen(ms, i) ==
    IF i <= Len(ms) /\ ms[i].tool_calls = <<>> /\ ms[i].role # "tool"
    THEN PrefixLen(ms, i + 1)
    ELSE i - 1

\* From position i on, ms is made of steps: an assistant message carrying
\* tool calls, then one tool message per call, in order, with the call's id
\* and name, and an "[ERROR]" text where the call failed.
RECURSIVE StepsWellFormed(_, _)
StepsWellFormed(ms, i) ==
    IF i > Len(ms) THEN TRUE
    ELSE LET tcs == ms[i].tool_calls
             n == Len(tcs)
         IN  /\ ms[i].role = "assistant"
             /\ n > 0
             /\ i + n <= Len(ms)
             /\ \A k \in 1..n :
                    /\ ms[i + k].role = "tool"
                    /\ ms[i + k].tool_call_id = tcs[k].id
                    /\ ms[i + k].name = tcs[k].name
                    /\ (tcs[k].name \notin TOOLS => ms[i + k].content = ErrToolNotFound)
                    /\ (tcs[k].name \in TOOLS /\ tcs[k].arguments \notin {"dict", "json dict"}
                            => ms[i + k].content = ErrToolFailed)
                    /\ ms[i + k].content \in {ErrToolNotFound, ErrToolFailed, ToolReturned}
             /\ StepsWellFormed(ms, i + n + 1)

ToolTexts == {ErrToolNotFound, ErrToolFailed, ToolReturned}

WrittenByAgent(h) == {i \in 1..Len(h) : h[i].content.kind # "stored"}

\* C17: every step with tool calls appends exactly one tool message per
\* call, in the calls' order and with their ids, failures as "[ERROR]"
\* texts; nothing with the tool role or a tool's text is written to the
\* memory history or its file.
C17_OneToolMessagePerCall ==
    /\ StepsWellFormed(messages, PrefixLen(messages, 1) + 1)
    /\ \A i \in 1..Len(turnAdds) : turnAdds[i] \in {"user", "assistant"}
    /\ \A i \in WrittenByAgent(history) :
           history[i].role \in {"user", "assistant"} /\ history[i].content \notin ToolTexts
    /\ \A i \in WrittenByAgent(memoryFile.history) :
           memoryFile.history[i].role \in {"user", "assistant"}
               /\ memoryFile.history[i].content \notin ToolTexts

C17_Witness ==
    /\ agentPc = "llm"
    /\ step = 2
    /\ \E i \in 1..Len(messages) :
           /\ Len(messages[i].tool_calls) = 4
           /\ i + 5 <= Len(messages)
           /\ messages[i + 1].content = ErrToolNotFound
           /\ messages[i + 2].content = ErrToolFailed
           /\ messages[i + 3].tool_call_id = "call_1"
           /\ messages[i + 5].role = "assistant"

====
